---- MODULE Spec2Model ----
(***************************************************************************)
(* Repository ingestion of bugbuddy (services/github.ts): the two entry    *)
(* points fetchGithubRepo and GitHubService.analyzeGitHubRepo, from the    *)
(* moment the recursive tree request has been issued to the moment the run *)
(* returns a result or throws (Spec), and the resolve stage before it, the *)
(* metadata and tree requests with GitHubService.request (SpecResolve).    *)
(* The file selector fed by an import: buildFileTree (utils/fileTree.ts)   *)
(* applied to a file list (SpecTree), and the selection clicks of the      *)
(* FileTree component on the tree it built (SpecSelect).                   *)
(*                                                                         *)
(* One action is one synchronous stretch of the code between two awaits.   *)
(* Sizes are counted in scaled units: the caps keep the source's names and *)
(* their order relations, not their magnitudes.                            *)
(***************************************************************************)
EXTENDS Integers, Sequences, FiniteSets, TLC

\* ------------------------------------------------------------------ bounds
\* Longest recursive tree listing the remote answers with.
MaxTree == 5
\* MAX_FILES (1000 in the source), scaled.
MAX_FILES == 4
\* MAX_TOTAL_SIZE_BYTES (100 MB in the source), scaled.
MAX_TOTAL_SIZE_BYTES == 3
\* MAX_FILE_SIZE_BYTES (1 MB in the source), scaled.
MAX_FILE_SIZE_BYTES == 2
\* BATCH_SIZE of analyzeGitHubRepo (5 in the source), scaled.
AGR_BATCH_SIZE == 2

\* Longest file list handed to buildFileTree.
MaxList == 3
\* Most selection clicks after an import.
MaxClicks == 2

\* --------------------------------------------------------------- constants
\* BATCH_SIZE of fetchGithubRepo.
FGR_BATCH_SIZE == 3
\* Default of fetchFileWithRetry's retries parameter.
RETRIES == 3

\* A tree item whose size field is absent.
NoSize == -1

FGR == "fetchGithubRepo"
AGR == "analyzeGitHubRepo"

Min(a, b) == IF a < b THEN a ELSE b

\* ------------------------------------------------------------ tree entries
\* The paths of the modelled listings, each with the text from its last '.'
\* (filename.toLowerCase().substring(filename.lastIndexOf('.'))).
PathExt ==
  [p \in {"src", "a.ts", "b.ts", "node_modules/x.js", "logo.png", "big.ts"} |->
     CASE p = "src" -> "src"
       [] p = "a.ts" -> ".ts"
       [] p = "b.ts" -> ".ts"
       [] p = "node_modules/x.js" -> ".js"
       [] p = "logo.png" -> ".png"
       [] p = "big.ts" -> ".ts"]

SUPPORTED_EXTENSIONS ==
  {".java", ".xml", ".gradle", ".properties", ".sql", ".jsp",
   ".yaml", ".yml", ".json", ".ts", ".tsx", ".js", ".css", ".html", ".md",
   ".py", ".cpp", ".c", ".h", ".php", ".rb", ".go", ".rs", ".kt", ".scala"}

\* The modelled paths that some pattern of IGNORED_PATTERNS matches
\* (/node_modules/ is the only one that matches any of them).
shouldIgnoreFile(path) == path \in {"node_modules/x.js"}

isSupportedFile(filename) == PathExt[filename] \in SUPPORTED_EXTENSIONS

\* GitHubTreeItem: path, type and the optional size.
TreeEntries ==
  { [path |-> "src", type |-> "tree", size |-> NoSize],
    [path |-> "a.ts", type |-> "blob", size |-> 1],
    [path |-> "b.ts", type |-> "blob", size |-> NoSize],
    [path |-> "node_modules/x.js", type |-> "blob", size |-> 1],
    [path |-> "logo.png", type |-> "blob", size |-> 1],
    [path |-> "big.ts", type |-> "blob", size |-> MAX_FILE_SIZE_BYTES] }

RECURSIVE SeqsUpTo(_, _)
SeqsUpTo(S, n) ==
  IF n = 0 THEN {<<>>}
  ELSE LET shorter == SeqsUpTo(S, n - 1)
       IN  shorter \cup {Append(s, x) : s \in {t \in shorter : Len(t) = n - 1}, x \in S}

\* The tree arrays a successful tree response can carry.
Listings == SeqsUpTo(TreeEntries, MaxTree)

\* The lengths content.length takes: a short content, and one as long as the
\* per-file cap (the tree's reported size does not bound what is returned).
ContentLens == {1, MAX_FILE_SIZE_BYTES}

\* --------------------------------------------------------- pure functions
\* Array.prototype.slice(start, end) for integer arguments: a negative
\* argument counts from the end, both are clamped to the array.
SliceSeq(s, start, end) ==
  LET rel(k) == IF k < 0 THEN (IF Len(s) + k < 0 THEN 0 ELSE Len(s) + k)
                ELSE Min(k, Len(s))
  IN  SubSeq(s, rel(start) + 1, rel(end))

\* (item.size || 0) < MAX_FILE_SIZE_BYTES
UnderFileCap(item) ==
  (IF item.size = NoSize THEN 0 ELSE item.size) < MAX_FILE_SIZE_BYTES

IsBlob(item) == item.type = "blob"
NotIgnored(item) == ~shouldIgnoreFile(item.path)
Supported(item) == isSupportedFile(item.path)

\* allBlobs and relevantItems of both entry points.
RelevantItems(tree) ==
  SelectSeq(SelectSeq(SelectSeq(SelectSeq(tree, IsBlob), NotIgnored), Supported),
            UnderFileCap)

\* Mutant of FgrLimitedItems: the slice to MAX_FILES is left out.
FgrLimitedItemsUncapped(relevant) == relevant

\* limitedItems of fetchGithubRepo.
FgrLimitedItems(relevant) == SliceSeq(relevant, 0, MAX_FILES)

\* limitedItems of analyzeGitHubRepo.
AgrLimitedItems(relevant, mf) == SliceSeq(relevant, 0, Min(mf, MAX_FILES))

\* Mutant of IsTruncated: the tree's own truncated flag is dropped.
IsTruncatedLocalOnly(treeTrunc, limited, relevant) == Len(limited) < Len(relevant)

\* Mutant of IsTruncated: the cut to MAX_FILES is not reported.
IsTruncatedTreeOnly(treeTrunc, limited, relevant) == treeTrunc

\* isTruncated of fetchGithubRepo.
IsTruncated(treeTrunc, limited, relevant) ==
  treeTrunc \/ Len(limited) < Len(relevant)

\* Mutant of ResultTruncated: failures do not mark the result truncated.
ResultTruncatedByLimitsOnly(isTrunc, failed) == isTrunc

\* The truncated field of fetchGithubRepo's result.
ResultTruncated(isTrunc, failed) == isTrunc \/ failed > 0

\* A value that stands for an absent part of the summary text.
Absent == "absent"

\* The summary template of fetchGithubRepo, by its parts: the number after
\* "Imported", the "(k failed)" part of the first alternative, and the
\* "(Some files skipped due to size/limits)" notice.
Summary(fileList, failed, isTrunc) ==
  [imported |-> Len(fileList),
   failed   |-> IF failed > 0 THEN failed ELSE Absent,
   notice   |-> isTrunc]

RECURSIVE SumSizes(_)
SumSizes(fileList) ==
  IF fileList = <<>> THEN 0 ELSE Head(fileList).size + SumSizes(Tail(fileList))

\* ------------------------------------------------------------------ state
VARIABLES
  entry,          \* the entry point this run executes
  maxFiles,       \* the maxFiles argument (analyzeGitHubRepo)
  phase,          \* "tree", "batch", "delay", "done" or "error"
  treeTruncated,  \* treeData.truncated
  relevantItems,  \* relevantItems
  limitedItems,   \* limitedItems
  isTruncated,    \* isTruncated (fetchGithubRepo)
  files,          \* files
  totalSize,      \* totalSize (analyzeGitHubRepo)
  failedCount,    \* failedCount (fetchGithubRepo)
  i,              \* the batch loop's index i
  slots,          \* the promises of the batch in flight, in batch order
  result,         \* the value the run returned
  error,          \* the error the run threw
  requested,      \* history: the candidates a content request was issued for
  skipped,        \* history: the candidates discarded by the byte budget
  exhausted,      \* history: the candidates whose last attempt failed
  kept,           \* history: the candidates whose file was pushed to files
  startTotal,     \* history: committed byte total when a candidate's batch began
  settled,        \* history: the slots of the batch, in the order they settled
  fetchedLen,     \* history: the content length each candidate's fetch returned
  treeEmpty       \* history: whether the tree response listed no entry at all

\* The resolve stage of a run (metadata and tree requests), up to the moment
\* the tree response is known to be OK.
VARIABLES
  refArg,         \* the caller's branch argument, NoRef when none is supplied
  hasToken,       \* whether a token is supplied (fetchGithubRepo) or stored (service)
  repo,           \* the remote repository: "missing", "private" or "public"
  step,           \* "start", "meta", "anon", "auth", "tree", "listed" or "error"
  calls,          \* the number of request() calls analyzeGitHubRepo has made
  targetRef,      \* targetRef
  resp,           \* the last response received
  fetches,        \* history: the fetches issued, in order
  outcomes,       \* history: how each request() call ended, in order
  storedToken,    \* the token stored in githubService by setToken, or NoToken
  contentCred     \* history: the credential the first content fetch carried

resolveVars == <<refArg, hasToken, repo, step, calls, targetRef, resp, fetches,
                 outcomes, storedToken, contentCred>>

NoToken == "none"
Unsent == "unsent"

\* No branch argument: '' for fetchGithubRepo, the absent argument for
\* analyzeGitHubRepo.
NoRef == ""
NoResp == [status |-> 0]

\* The file selector: the imported files, the tree built from them and the
\* selection of the FileTree component.
VARIABLES
  projectFiles,   \* the files handed to buildFileTree, in order
  fileTree,       \* the tree buildFileTree returned
  treeStep,       \* "input" before the import, "built" after it
  selectedPaths,  \* selection.selectedPaths
  clicks          \* history: the number of selection clicks so far

treeVars == <<projectFiles, fileTree, treeStep, selectedPaths, clicks>>

vars == <<entry, maxFiles, phase, treeTruncated, relevantItems, limitedItems,
          isTruncated, files, totalSize, failedCount, i, slots, result, error,
          requested, skipped, exhausted, kept, startTotal, settled,
          fetchedLen, treeEmpty, resolveVars, treeVars>>

NoResult == [none |-> TRUE]
NoError == "none"
NotYet == "notyet"

\* The maxFiles arguments of analyzeGitHubRepo (an unsigned count): none,
\* below the cap, the cap (the default) and above it.
MaxFilesArgs == {0, MAX_FILES - 1, MAX_FILES, MAX_FILES + 1}

Init ==
  /\ entry \in {FGR, AGR}
  /\ maxFiles \in (IF entry = AGR THEN MaxFilesArgs ELSE {MAX_FILES})
  /\ phase = "tree"
  /\ treeTruncated = FALSE
  /\ relevantItems = <<>>
  /\ limitedItems = <<>>
  /\ isTruncated = FALSE
  /\ files = <<>>
  /\ totalSize = 0
  /\ failedCount = 0
  /\ i = 0
  /\ slots = <<>>
  /\ result = NoResult
  /\ error = NoError
  /\ requested = {}
  /\ skipped = {}
  /\ exhausted = {}
  /\ kept = {}
  /\ startTotal = <<>>
  /\ settled = <<>>
  /\ fetchedLen = <<>>
  /\ treeEmpty = FALSE
  /\ refArg = NoRef
  /\ hasToken = FALSE
  /\ repo = "public"
  /\ step = "listed"
  /\ calls = 0
  /\ targetRef = "main"
  /\ resp = NoResp
  /\ fetches = <<>>
  /\ outcomes = <<>>
  /\ storedToken = NoToken
  /\ contentCred = Unsent
  /\ projectFiles = <<>>
  /\ fileTree = <<>>
  /\ treeStep = "input"
  /\ selectedPaths = <<>>
  /\ clicks = 0

\* The batch that starts at index from: limitedItems.slice(i, i + BATCH_SIZE).
Batch(items, from, size) == SliceSeq(items, from, from + size)

\* The candidate (1-based position in limitedItems) that slot k of the batch
\* in flight stands for.
Cand(k) == i + k

\* ProjectFile, without the content text: path and size = content.length.
ProjectFile(item, len) == [path |-> item.path, size |-> len]

\* --------------------------------------------------------- fetchGithubRepo
\* Promise.all(batch.map(item => fetchFileWithRetry(item))): every item of the
\* batch starts its attempt 0.
FgrStartSlots(items, from) ==
  [k \in 1..Len(Batch(items, from, FGR_BATCH_SIZE)) |->
     [st |-> "inflight", attempt |-> 0]]

\* The candidates of the batch of n items that starts at index from.
BatchCands(from, n) == (from + 1)..(from + n)

MarkStart(st, from, n, total) ==
  [c \in DOMAIN st |-> IF c > from /\ c <= from + n THEN total ELSE st[c]]

\* treeData.tree.length === 0: the tree response lists no entry at all.
TreeIsEmpty(tree) == Len(tree) = 0

\* Mutant of NoCandidates: an empty candidate list is not treated specially.
NoCandidatesIgnored(limited) == FALSE

\* limitedItems.length === 0: no entry of the tree survived the filters.
NoCandidates(limited) == Len(limited) = 0

\* The tree response is OK: lines 445-506, up to the first batch's requests.
FgrTreeResponse ==
  /\ entry = FGR
  /\ phase = "tree"
  /\ \E tree \in Listings, trunc \in BOOLEAN :
       LET relevant == RelevantItems(tree)
           limited  == FgrLimitedItems(relevant)
           n        == Len(limited)
           first    == FgrStartSlots(limited, 0)
       IN  /\ treeTruncated' = trunc
           /\ treeEmpty' = TreeIsEmpty(tree)
           /\ IF TreeIsEmpty(tree)
              THEN /\ phase' = "error"
                   /\ error' = "RepositoryEmpty"
                   /\ UNCHANGED <<relevantItems, limitedItems, isTruncated, slots,
                                  requested, startTotal, fetchedLen>>
              ELSE IF NoCandidates(limited)
              THEN /\ phase' = "error"
                   /\ error' = "NoMatchingFiles"
                   /\ relevantItems' = relevant
                   /\ limitedItems' = limited
                   /\ isTruncated' = IsTruncated(trunc, limited, relevant)
                   /\ UNCHANGED <<slots, requested, startTotal, fetchedLen>>
              ELSE /\ phase' = "batch"
                   /\ error' = error
                   /\ relevantItems' = relevant
                   /\ limitedItems' = limited
                   /\ isTruncated' = IsTruncated(trunc, limited, relevant)
                   /\ slots' = first
                   /\ requested' = BatchCands(0, Len(first))
                   /\ startTotal' = MarkStart([c \in 1..n |-> NotYet], 0, Len(first), 0)
                   /\ fetchedLen' = [c \in 1..n |-> NotYet]
  /\ UNCHANGED resolveVars
  /\ UNCHANGED treeVars
  /\ UNCHANGED <<entry, maxFiles, files, totalSize, failedCount, i, result,
                 skipped, exhausted, kept, settled>>

\* Mutant of AfterFailure: the last attempt's error is rethrown.
AfterFailureRethrows(a) == IF a = RETRIES - 1 THEN "throw" ELSE "backoff"

\* What fetchFileWithRetry does in its catch block on attempt a: give up
\* (return null) after the last attempt, otherwise wait for the backoff. The
\* block never rethrows.
AfterFailure(a) == IF a = RETRIES - 1 THEN "failed" ELSE "backoff"

\* Mutant of BackoffMs: the wait does not grow with the attempt.
BackoffMsFlat(attempt) == 1000

\* The wait in milliseconds after the failure of attempt (0-based):
\* Math.pow(2, attempt) * 1000.
BackoffMs(attempt) == (2 ^ attempt) * 1000

\* getFileContent resolves: fetchFileWithRetry returns the ProjectFile.
FgrAttemptOk(k) ==
  /\ entry = FGR
  /\ phase = "batch"
  /\ k \in DOMAIN slots
  /\ slots[k].st = "inflight"
  /\ \E len \in ContentLens :
       /\ slots' = [slots EXCEPT ![k] = [st |-> "ok", size |-> len]]
       /\ fetchedLen' = [fetchedLen EXCEPT ![Cand(k)] = len]
  /\ settled' = Append(settled, k)
  /\ UNCHANGED resolveVars
  /\ UNCHANGED treeVars
  /\ UNCHANGED <<entry, maxFiles, phase, treeTruncated, relevantItems, limitedItems,
                 isTruncated, files, totalSize, failedCount, i, result, error,
                 requested, skipped, exhausted, startTotal, kept, treeEmpty>>

\* getFileContent rejects (any error): the catch block of fetchFileWithRetry.
\* An error leaving the block would reject Promise.all and with it the run.
FgrAttemptFail(k) ==
  /\ entry = FGR
  /\ phase = "batch"
  /\ k \in DOMAIN slots
  /\ slots[k].st = "inflight"
  /\ LET next == AfterFailure(slots[k].attempt)
     IN  /\ slots' = [slots EXCEPT ![k] =
                        IF next = "backoff"
                        THEN [st |-> "backoff", attempt |-> @.attempt,
                              delay |-> BackoffMs(@.attempt)]
                        ELSE [st |-> "failed"]]
         /\ exhausted' = IF next = "backoff" THEN exhausted ELSE exhausted \cup {Cand(k)}
         /\ settled' = IF next = "backoff" THEN settled ELSE Append(settled, k)
         /\ phase' = IF next \in {"failed", "backoff"} THEN phase ELSE "error"
         /\ error' = IF next \in {"failed", "backoff"} THEN error ELSE "FetchFailed"
  /\ UNCHANGED resolveVars
  /\ UNCHANGED treeVars
  /\ UNCHANGED <<entry, maxFiles, treeTruncated, relevantItems, limitedItems,
                 isTruncated, files, totalSize, failedCount, i, result,
                 requested, skipped, startTotal, kept, fetchedLen, treeEmpty>>

\* The backoff timer of slot k fires: the next attempt's request is issued.
FgrBackoffElapsed(k) ==
  /\ entry = FGR
  /\ phase = "batch"
  /\ k \in DOMAIN slots
  /\ slots[k].st = "backoff"
  /\ slots' = [slots EXCEPT ![k] = [st |-> "inflight", attempt |-> @.attempt + 1]]
  /\ requested' = requested \cup {Cand(k)}
  /\ UNCHANGED resolveVars
  /\ UNCHANGED treeVars
  /\ UNCHANGED <<entry, maxFiles, phase, treeTruncated, relevantItems, limitedItems,
                 isTruncated, files, totalSize, failedCount, i, result, error,
                 skipped, exhausted, startTotal, kept, settled, fetchedLen,
                 treeEmpty>>

\* Mutant of FgrPushed: the files are pushed in the order their fetches
\* settled.
RECURSIVE PushedInOrder(_, _, _, _)
PushedInOrder(items, from, sl, order) ==
  IF order = <<>> THEN <<>>
  ELSE (IF sl[Head(order)].st = "ok"
        THEN <<ProjectFile(items[from + Head(order)], sl[Head(order)].size)>>
        ELSE <<>>) \o PushedInOrder(items, from, sl, Tail(order))

FgrPushedAsSettled(items, from, sl) == PushedInOrder(items, from, sl, settled)

\* results.forEach of fetchGithubRepo: the files pushed, in batch order.
RECURSIVE FgrPushed(_, _, _)
FgrPushed(items, from, sl) ==
  IF sl = <<>> THEN <<>>
  ELSE (IF Head(sl).st = "ok"
        THEN <<ProjectFile(items[from + 1], Head(sl).size)>>
        ELSE <<>>) \o FgrPushed(items, from + 1, Tail(sl))

\* Mutant of FgrNulls: failedCount grows by one per batch with a failure.
FgrNullsOncePerBatch(sl) == IF \E k \in DOMAIN sl : sl[k].st # "ok" THEN 1 ELSE 0

\* results.forEach of fetchGithubRepo: the number of null results.
FgrNulls(sl) == Cardinality({k \in DOMAIN sl : sl[k].st # "ok"})

\* The value fetchGithubRepo returns.
FgrResult(fileList, failed, isTrunc) ==
  [files     |-> fileList,
   truncated |-> ResultTruncated(isTrunc, failed),
   summary   |-> Summary(fileList, failed, isTrunc)]

\* Whether slot k of the batch has run fetchFileWithRetry to its return.
Finished(sl, k) == sl[k].st \in {"ok", "failed"}

\* Mutant of AllSettled: the await resumes when the first promise settles.
AnySettled(sl) == \E k \in DOMAIN sl : Finished(sl, k)

\* await Promise.all(...): the await resumes when every promise of the batch
\* has settled.
AllSettled(sl) == \A k \in DOMAIN sl : Finished(sl, k)

\* Promise.all of the batch resolves: the results are merged; after the last
\* batch the run returns, otherwise the inter-batch delay starts.
FgrMergeBatch ==
  /\ entry = FGR
  /\ phase = "batch"
  /\ AllSettled(slots)
  /\ LET newFiles  == files \o FgrPushed(limitedItems, i, slots)
         newFailed == failedCount + FgrNulls(slots)
     IN  /\ files' = newFiles
         /\ failedCount' = newFailed
         /\ kept' = kept \cup {Cand(k) : k \in {m \in DOMAIN slots : slots[m].st = "ok"}}
         /\ slots' = <<>>
         /\ IF i + FGR_BATCH_SIZE < Len(limitedItems)
            THEN /\ phase' = "delay"
                 /\ result' = result
            ELSE /\ phase' = "done"
                 /\ result' = FgrResult(newFiles, newFailed, isTruncated)
  /\ UNCHANGED resolveVars
  /\ UNCHANGED treeVars
  /\ UNCHANGED <<entry, maxFiles, treeTruncated, relevantItems, limitedItems,
                 isTruncated, totalSize, i, error, requested, skipped, exhausted,
                 startTotal, settled, fetchedLen, treeEmpty>>

\* The inter-batch delay elapses: i += BATCH_SIZE and the next batch starts.
FgrDelayElapsed ==
  /\ entry = FGR
  /\ phase = "delay"
  /\ LET from == i + FGR_BATCH_SIZE
         next == FgrStartSlots(limitedItems, from)
     IN  /\ i' = from
         /\ slots' = next
         /\ requested' = requested \cup BatchCands(from, Len(next))
         /\ startTotal' = MarkStart(startTotal, from, Len(next), SumSizes(files))
  /\ phase' = "batch"
  /\ settled' = <<>>
  /\ UNCHANGED resolveVars
  /\ UNCHANGED treeVars
  /\ UNCHANGED <<entry, maxFiles, treeTruncated, relevantItems, limitedItems,
                 isTruncated, files, totalSize, failedCount, result, error,
                 skipped, exhausted, kept, fetchedLen, treeEmpty>>

FgrNext ==
  \/ FgrTreeResponse
  \/ \E k \in 1..FGR_BATCH_SIZE : FgrAttemptOk(k)
  \/ \E k \in 1..FGR_BATCH_SIZE : FgrAttemptFail(k)
  \/ \E k \in 1..FGR_BATCH_SIZE : FgrBackoffElapsed(k)
  \/ FgrMergeBatch
  \/ FgrDelayElapsed

\* ------------------------------------------------------- analyzeGitHubRepo
\* The batch's async callbacks up to their first await: an item gives null
\* when the committed total has reached the cap, otherwise its blob request
\* is issued.
AgrStartSlots(items, from, total) ==
  [k \in 1..Len(Batch(items, from, AGR_BATCH_SIZE)) |->
     [st |-> IF total >= MAX_TOTAL_SIZE_BYTES THEN "null" ELSE "inflight"]]

\* The value analyzeGitHubRepo returns.
AgrResult(fileList, total) ==
  [files          |-> fileList,
   totalSize      |-> total,
   supportedFiles |-> Len(fileList),
   ignoredFiles   |-> <<>>]

\* The loop guard of the batch loop: whether a batch starts at index from
\* with the committed total (the loop condition and the size-limit break).
AgrContinues(items, from, total) ==
  from < Len(items) /\ ~(total >= MAX_TOTAL_SIZE_BYTES)

\* The head of the batch loop at index from: the next batch starts, or the
\* loop ends (index past the end, or the size-limit break) and the run returns.
AgrLoopHead(items, from, total, fileList, req, st) ==
  LET next == AgrStartSlots(items, from, total)
      sent == {from + k : k \in {m \in DOMAIN next : next[m].st = "inflight"}}
  IN  /\ i' = from
      /\ IF AgrContinues(items, from, total)
         THEN /\ phase' = "batch"
              /\ slots' = next
              /\ requested' = req \cup sent
              /\ startTotal' = MarkStart(st, from, Len(next), total)
              /\ result' = result
         ELSE /\ phase' = "done"
              /\ slots' = <<>>
              /\ requested' = req
              /\ startTotal' = st
              /\ result' = AgrResult(fileList, total)

\* The tree response is OK: lines 273-315, up to the first batch's requests.
\* treeData.truncated is read for a console warning only and is not kept.
AgrTreeResponse ==
  /\ entry = AGR
  /\ phase = "tree"
  /\ \E tree \in Listings :
       LET relevant == RelevantItems(tree)
           limited  == AgrLimitedItems(relevant, maxFiles)
           n        == Len(limited)
       IN  /\ relevantItems' = relevant
           /\ limitedItems' = limited
           /\ treeEmpty' = TreeIsEmpty(tree)
           /\ IF NoCandidates(limited)
              THEN /\ phase' = "error"
                   /\ error' = "NoMatchingFiles"
                   /\ UNCHANGED <<i, slots, result, requested, startTotal>>
              ELSE /\ error' = error
                   /\ AgrLoopHead(limited, 0, totalSize, files, requested,
                                  [c \in 1..n |-> NotYet])
  /\ UNCHANGED resolveVars
  /\ UNCHANGED treeVars
  /\ UNCHANGED <<entry, maxFiles, treeTruncated, isTruncated, files, totalSize,
                 failedCount, skipped, exhausted, kept, settled, fetchedLen>>

\* fetch(item.url) settles: an OK response goes on to blobRes.json(); a
\* response that is not OK, or a rejected fetch, gives null.
AgrBlobResponse(k) ==
  /\ entry = AGR
  /\ phase = "batch"
  /\ k \in DOMAIN slots
  /\ slots[k].st = "inflight"
  /\ \E next \in {"json", "null"} :
       slots' = [slots EXCEPT ![k] = [st |-> next]]
  /\ UNCHANGED resolveVars
  /\ UNCHANGED treeVars
  /\ UNCHANGED <<entry, maxFiles, phase, treeTruncated, relevantItems, limitedItems,
                 isTruncated, files, totalSize, failedCount, i, result, error,
                 requested, skipped, exhausted, startTotal, kept, settled,
                 fetchedLen, treeEmpty>>

\* What an item whose content of length len has arrived returns: null when
\* totalSize + content.length > MAX_TOTAL_SIZE_BYTES, the file otherwise.
AgrFits(total, len) == ~(total + len > MAX_TOTAL_SIZE_BYTES)

\* blobRes.json() settles: the content is decoded and checked against the
\* budget; a rejection or a decoding error gives null.
AgrBlobJson(k) ==
  /\ entry = AGR
  /\ phase = "batch"
  /\ k \in DOMAIN slots
  /\ slots[k].st = "json"
  /\ \/ /\ slots' = [slots EXCEPT ![k] = [st |-> "null"]]
        /\ skipped' = skipped
     \/ \E len \in ContentLens :
          IF AgrFits(totalSize, len)
          THEN /\ slots' = [slots EXCEPT ![k] = [st |-> "ok", size |-> len]]
               /\ skipped' = skipped
          ELSE /\ slots' = [slots EXCEPT ![k] = [st |-> "null"]]
               /\ skipped' = skipped \cup {Cand(k)}
  /\ UNCHANGED resolveVars
  /\ UNCHANGED treeVars
  /\ UNCHANGED <<entry, maxFiles, phase, treeTruncated, relevantItems, limitedItems,
                 isTruncated, files, totalSize, failedCount, i, result, error,
                 requested, exhausted, startTotal, kept, settled, fetchedLen,
                 treeEmpty>>

\* results.forEach of analyzeGitHubRepo: the non-null results, in batch order.
RECURSIVE AgrPushed(_, _, _)
AgrPushed(items, from, sl) ==
  IF sl = <<>> THEN <<>>
  ELSE (IF Head(sl).st = "ok"
        THEN <<ProjectFile(items[from + 1], Head(sl).size)>>
        ELSE <<>>) \o AgrPushed(items, from + 1, Tail(sl))

\* Promise.all of the batch resolves: the results are merged serially, then
\* the loop goes on to its next head.
AgrMergeBatch ==
  /\ entry = AGR
  /\ phase = "batch"
  /\ \A k \in DOMAIN slots : slots[k].st \in {"ok", "null"}
  /\ LET pushed   == AgrPushed(limitedItems, i, slots)
         newFiles == files \o pushed
         newTotal == totalSize + SumSizes(pushed)
     IN  /\ files' = newFiles
         /\ totalSize' = newTotal
         /\ kept' = kept \cup {Cand(k) : k \in {m \in DOMAIN slots : slots[m].st = "ok"}}
         /\ AgrLoopHead(limitedItems, i + AGR_BATCH_SIZE, newTotal, newFiles,
                        requested, startTotal)
  /\ UNCHANGED resolveVars
  /\ UNCHANGED treeVars
  /\ UNCHANGED <<entry, maxFiles, treeTruncated, relevantItems, limitedItems,
                 isTruncated, failedCount, error, skipped, exhausted, settled,
                 fetchedLen, treeEmpty>>

AgrNext ==
  \/ AgrTreeResponse
  \/ \E k \in 1..AGR_BATCH_SIZE : AgrBlobResponse(k)
  \/ \E k \in 1..AGR_BATCH_SIZE : AgrBlobJson(k)
  \/ AgrMergeBatch

Next == FgrNext \/ AgrNext

Spec == Init /\ [][Next]_vars

\* ----------------------------------------------------------- resolve stage
\* The variables of the fetch stage, which the resolve stage leaves alone.
fetchVars == <<maxFiles, phase, treeTruncated, relevantItems, limitedItems,
               isTruncated, files, totalSize, failedCount, i, slots, result,
               requested, skipped, exhausted, kept, startTotal, settled,
               fetchedLen, treeEmpty>>

\* The statuses the remote may answer a fetch with. auth: whether the fetch
\* carries an Authorization header. A missing repository never answers OK; a
\* private one answers an anonymous metadata fetch with a failure or, as the
\* code provides for, with its metadata, and never lists its tree anonymously.
Statuses(call, auth) ==
  CASE repo = "missing" -> {403, 404, 500}
    [] repo = "private" /\ ~auth ->
         {401, 403, 404, 500} \cup (IF call = "meta" THEN {200} ELSE {})
    [] OTHER ->
         {200, 401, 403, 404, 500} \cup (IF call = "tree" THEN {409} ELSE {})

\* The responses the remote may answer a fetch with: the status, whether
\* x-ratelimit-remaining is '0', whether retry-after or x-ratelimit-reset is
\* present and, for metadata, the fields private and default_branch.
Responses(call, auth) ==
  {r \in [status : Statuses(call, auth), remaining0 : BOOLEAN,
          retryHdr : BOOLEAN, private : BOOLEAN,
          defaultBranch : {"", "trunk"}] :
     IF r.status = 200 /\ call = "meta"
     THEN r.private = (repo = "private")
     ELSE ~r.private /\ r.defaultBranch = ""}

\* response.ok
Ok(r) == r.status = 200

\* repoData.default_branch || 'main'
DefaultBranchOr(r) == IF r.defaultBranch = "" THEN "main" ELSE r.defaultBranch

\* GitHubService.isRateLimited
isRateLimited(r) == r.remaining0 \/ (r.status = 403 /\ r.retryHdr)

\* The error request() throws for a response to its fetch with getHeaders()
\* that is not OK.
RequestError(r) ==
  IF isRateLimited(r) THEN "RateLimited"
  ELSE IF r.status = 401 THEN "AuthRequired"
  ELSE IF r.status = 403 THEN "AccessDenied"
  ELSE IF r.status = 404 THEN "NotFound"
  ELSE "Generic"

\* What request() does with a response to its anonymous fetch that is not OK:
\* throw the rate-limit error, go on to the fetch with getHeaders() (403 and
\* 404), or throw the generic error.
AnonOutcome(r) ==
  IF isRateLimited(r) THEN "RateLimited"
  ELSE IF r.status = 403 \/ r.status = 404 THEN "continue"
  ELSE "Generic"

\* fetchGithubRepo: the error for a metadata response that is not OK.
FgrMetaError(r) ==
  IF r.status = 404 THEN "RepositoryNotFound"
  ELSE IF r.status = 401 THEN "Unauthorized"
  ELSE IF r.status = 403
       THEN (IF r.remaining0 THEN "RateLimited" ELSE "AccessDenied")
  ELSE "Generic"

\* fetchGithubRepo: the error for a tree response that is not OK.
FgrTreeError(r) ==
  IF r.status = 404 THEN "ReferenceNotFound"
  ELSE IF r.status = 409 THEN "RepositoryUninitialized"
  ELSE IF r.status = 403
       THEN (IF r.remaining0 THEN "RateLimited" ELSE "AccessDenied")
  ELSE "TreeFetchFailed"

\* analyzeGitHubRepo: the error for a tree response that is not OK.
AgrTreeError(r) ==
  IF r.status = 404 THEN "ReferenceNotFound"
  ELSE IF r.status = 409 THEN "RepositoryUninitialized"
  ELSE "TreeFetchFailed"

\* analyzeGitHubRepo's catch: error.message.includes('Authentication required')
RetriesWithAuth(e) == e = "AuthRequired"

\* The branch parameter of analyzeGitHubRepo: branch = 'main' by default.
AgrBranch(arg) == IF arg = NoRef THEN "main" ELSE arg

MetaFetch(auth) == [call |-> "meta", auth |-> auth, ref |-> ""]
TreeFetch(auth, ref) == [call |-> "tree", auth |-> auth, ref |-> ref]

\* The token argument of fetchGithubRepo.
ArgToken(has) == IF has THEN "t1" ELSE NoToken

\* The tokens githubService may hold when the run starts. hasToken stands for
\* the stored token in analyzeGitHubRepo; fetchGithubRepo takes its token as
\* an argument, whatever earlier calls of setToken have stored.
StoredTokens(e, has) ==
  IF e = AGR THEN {ArgToken(has)} ELSE {NoToken, "t1", "t2"}

\* The credential a fetch of githubService.request carries: the stored token
\* through getHeaders(), none on the anonymous path. The token argument of
\* fetchGithubRepo is not passed to getFileContent.
ServiceCredential(stored, arg) == stored

InitResolve ==
  /\ entry \in {FGR, AGR}
  /\ refArg \in {NoRef, "dev"}
  /\ hasToken \in BOOLEAN
  /\ repo \in {"missing", "private", "public"}
  /\ step = "start"
  /\ calls = 0
  /\ targetRef = ""
  /\ resp = NoResp
  /\ fetches = <<>>
  /\ outcomes = <<>>
  /\ storedToken \in StoredTokens(entry, hasToken)
  /\ contentCred = Unsent
  /\ projectFiles = <<>>
  /\ fileTree = <<>>
  /\ treeStep = "input"
  /\ selectedPaths = <<>>
  /\ clicks = 0
  /\ error = NoError
  /\ maxFiles = MAX_FILES
  /\ phase = "tree"
  /\ treeTruncated = FALSE
  /\ relevantItems = <<>>
  /\ limitedItems = <<>>
  /\ isTruncated = FALSE
  /\ files = <<>>
  /\ totalSize = 0
  /\ failedCount = 0
  /\ i = 0
  /\ slots = <<>>
  /\ result = NoResult
  /\ requested = {}
  /\ skipped = {}
  /\ exhausted = {}
  /\ kept = {}
  /\ startTotal = <<>>
  /\ settled = <<>>
  /\ fetchedLen = <<>>
  /\ treeEmpty = FALSE

\* fetchGithubRepo up to its first await: targetRef = branch; the metadata
\* fetch when no branch is given, the tree fetch otherwise.
FgrBegin ==
  /\ entry = FGR
  /\ step = "start"
  /\ targetRef' = refArg
  /\ IF refArg = NoRef
     THEN /\ step' = "meta"
          /\ fetches' = Append(fetches, MetaFetch(hasToken))
     ELSE /\ step' = "tree"
          /\ fetches' = Append(fetches, TreeFetch(hasToken, refArg))
  /\ UNCHANGED <<entry, error, refArg, hasToken, repo, calls, resp, outcomes>>
  /\ UNCHANGED <<storedToken, contentCred>>
  /\ UNCHANGED fetchVars
  /\ UNCHANGED treeVars

\* fetchGithubRepo: the metadata response arrives.
FgrMetaResponse ==
  /\ entry = FGR
  /\ step = "meta"
  /\ \E r \in Responses("meta", hasToken) :
       /\ resp' = r
       /\ IF ~Ok(r)
          THEN /\ step' = "error"
               /\ error' = FgrMetaError(r)
               /\ UNCHANGED <<targetRef, fetches>>
          ELSE IF r.private /\ ~hasToken
          THEN /\ step' = "error"
               /\ error' = "PrivateNeedsToken"
               /\ UNCHANGED <<targetRef, fetches>>
          ELSE /\ step' = "tree"
               /\ error' = error
               /\ targetRef' = DefaultBranchOr(r)
               /\ fetches' = Append(fetches, TreeFetch(hasToken, DefaultBranchOr(r)))
  /\ UNCHANGED <<entry, refArg, hasToken, repo, calls, outcomes>>
  /\ UNCHANGED <<storedToken, contentCred>>
  /\ UNCHANGED fetchVars
  /\ UNCHANGED treeVars

\* fetchGithubRepo: the status of the tree response arrives.
FgrTreeStatus ==
  /\ entry = FGR
  /\ step = "tree"
  /\ \E r \in Responses("tree", hasToken) :
       /\ resp' = r
       /\ step' = IF Ok(r) THEN "listed" ELSE "error"
       /\ error' = IF Ok(r) THEN error ELSE FgrTreeError(r)
  /\ UNCHANGED <<entry, refArg, hasToken, repo, calls, targetRef, fetches, outcomes>>
  /\ UNCHANGED <<storedToken, contentCred>>
  /\ UNCHANGED fetchVars
  /\ UNCHANGED treeVars

\* request(url, requireAuth) up to its first await: the anonymous fetch when
\* !requireAuth && !this.token, the fetch with getHeaders() otherwise.
RequestBegin(requireAuth) ==
  IF ~requireAuth /\ ~hasToken
  THEN /\ step' = "anon"
       /\ fetches' = Append(fetches, MetaFetch(FALSE))
  ELSE /\ step' = "auth"
       /\ fetches' = Append(fetches, MetaFetch(hasToken))

\* analyzeGitHubRepo up to its first await: targetRef = branch and the first
\* request(url, false).
AgrBegin ==
  /\ entry = AGR
  /\ step = "start"
  /\ targetRef' = AgrBranch(refArg)
  /\ calls' = 1
  /\ RequestBegin(FALSE)
  /\ UNCHANGED <<entry, error, refArg, hasToken, repo, resp, outcomes>>
  /\ UNCHANGED <<storedToken, contentCred>>
  /\ UNCHANGED fetchVars
  /\ UNCHANGED treeVars

\* analyzeGitHubRepo after request() returned repoData (in the try block or
\* in the catch block): targetRef is set from it and the tree fetch issued.
AgrGotRepoData(r) ==
  /\ targetRef' = DefaultBranchOr(r)
  /\ step' = "tree"
  /\ fetches' = Append(fetches, TreeFetch(hasToken, DefaultBranchOr(r)))
  /\ outcomes' = Append(outcomes, [resp |-> r, threw |-> "none"])
  /\ UNCHANGED <<calls, error>>

\* analyzeGitHubRepo after request() threw e: the first call's error is
\* caught and, when it says 'Authentication required', answered by
\* request(url, true); any other error, and any error of that second call,
\* leaves analyzeGitHubRepo.
AgrRequestThrew(r, e) ==
  /\ outcomes' = Append(outcomes, [resp |-> r, threw |-> e])
  /\ targetRef' = targetRef
  /\ IF calls = 1 /\ RetriesWithAuth(e)
     THEN /\ calls' = 2
          /\ RequestBegin(TRUE)
          /\ error' = error
     ELSE /\ step' = "error"
          /\ error' = e
          /\ UNCHANGED <<calls, fetches>>

\* request(): the response to the anonymous fetch arrives.
ReqAnonResponse ==
  /\ entry = AGR
  /\ step = "anon"
  /\ \E r \in Responses("meta", FALSE) :
       /\ resp' = r
       /\ IF Ok(r) THEN AgrGotRepoData(r)
          ELSE IF AnonOutcome(r) = "continue"
          THEN /\ step' = "auth"
               /\ fetches' = Append(fetches, MetaFetch(hasToken))
               /\ UNCHANGED <<calls, error, targetRef, outcomes>>
          ELSE AgrRequestThrew(r, AnonOutcome(r))
  /\ UNCHANGED <<entry, refArg, hasToken, repo>>
  /\ UNCHANGED <<storedToken, contentCred>>
  /\ UNCHANGED fetchVars
  /\ UNCHANGED treeVars

\* request(): the response to the fetch with getHeaders() arrives.
ReqAuthResponse ==
  /\ entry = AGR
  /\ step = "auth"
  /\ \E r \in Responses("meta", hasToken) :
       /\ resp' = r
       /\ IF Ok(r) THEN AgrGotRepoData(r)
          ELSE AgrRequestThrew(r, RequestError(r))
  /\ UNCHANGED <<entry, refArg, hasToken, repo>>
  /\ UNCHANGED <<storedToken, contentCred>>
  /\ UNCHANGED fetchVars
  /\ UNCHANGED treeVars

\* analyzeGitHubRepo: the status of the tree response arrives.
AgrTreeStatus ==
  /\ entry = AGR
  /\ step = "tree"
  /\ \E r \in Responses("tree", hasToken) :
       /\ resp' = r
       /\ step' = IF Ok(r) THEN "listed" ELSE "error"
       /\ error' = IF Ok(r) THEN error ELSE AgrTreeError(r)
  /\ UNCHANGED <<entry, refArg, hasToken, repo, calls, targetRef, fetches, outcomes>>
  /\ UNCHANGED <<storedToken, contentCred>>
  /\ UNCHANGED fetchVars
  /\ UNCHANGED treeVars

\* fetchGithubRepo after the tree response: the first batch's
\* fetchFileWithRetry calls githubService.getFileContent, whose request()
\* issues the content fetch.
FgrContentRequest ==
  /\ entry = FGR
  /\ step = "listed"
  /\ step' = "content"
  /\ contentCred' = ServiceCredential(storedToken, ArgToken(hasToken))
  /\ UNCHANGED <<entry, error, refArg, hasToken, repo, calls, targetRef, resp,
                 fetches, outcomes, storedToken>>
  /\ UNCHANGED fetchVars
  /\ UNCHANGED treeVars

NextResolve ==
  \/ FgrBegin
  \/ FgrMetaResponse
  \/ FgrTreeStatus
  \/ FgrContentRequest
  \/ AgrBegin
  \/ ReqAnonResponse
  \/ ReqAuthResponse
  \/ AgrTreeStatus

SpecResolve == InitResolve /\ [][NextResolve]_vars

\* ----------------------------------------------------------- file selector
\* Paths are kept as the sequence of their segments: path.split('/') is the
\* path itself and parts.slice(0, k).join('/') is its prefix of length k.
\* The names of the segments, in the order localeCompare gives them.
NameOrder == <<"a", "b.txt", "c", "d.txt", "e.txt">>

NameRank(name) == CHOOSE k \in DOMAIN NameOrder : NameOrder[k] = name

\* a.localeCompare(b): negative, zero or positive.
localeCompare(a, b) == NameRank(a) - NameRank(b)

\* The paths of the imported files.
TreePaths ==
  { <<"a", "b.txt">>, <<"a", "c", "d.txt">>, <<"e.txt">>, <<"a">>,
    <<"a", "c">>, <<"b.txt">>, <<"c", "d.txt">> }

\* The size and language a file can carry.
Metas ==
  { [size |-> 1, language |-> "typescript"], [size |-> 2, language |-> "python"] }

\* CodebaseFile, without the content text.
TreeFiles ==
  {[path |-> p, size |-> m.size, language |-> m.language] : p \in TreePaths, m \in Metas}

\* The file lists buildFileTree is called with.
FileLists == SeqsUpTo(TreeFiles, MaxList)

\* The file node buildFileTree creates for the last part of a file's path.
FileNode(part, file) ==
  [name |-> part, path |-> file.path, type |-> "file", size |-> file.size,
   language |-> file.language, isSupported |-> TRUE]

\* The directory node buildFileTree creates for part k of a path.
DirectoryNode(parts, k) ==
  [name |-> parts[k], path |-> SubSeq(parts, 1, k), type |-> "directory",
   children |-> <<>>]

\* currentLevel.find(node => node.name === part), as an index; 0 when absent.
FindNode(level, part) ==
  IF \E k \in DOMAIN level : level[k].name = part
  THEN CHOOSE k \in DOMAIN level :
         /\ level[k].name = part
         /\ \A j \in 1..(k - 1) : level[j].name # part
  ELSE 0

\* Mutant of MovesDown: the walk never enters a directory.
MovesDownNever(isLastPart, node) == FALSE

\* Whether the walk moves to the children of the node found or created:
\* !isLastPart && existingNode.type === 'directory'.
MovesDown(isLastPart, node) == ~isLastPart /\ node.type = "directory"

\* The inner loop of buildFileTree from part k of the file's path on, with
\* currentLevel = level: the level as the loop leaves it.
RECURSIVE WalkParts(_, _, _, _)
WalkParts(level, parts, k, file) ==
  LET isLastPart == k = Len(parts)
      found      == FindNode(level, parts[k])
      pushed     == IF found # 0 THEN level
                    ELSE Append(level, IF isLastPart THEN FileNode(parts[k], file)
                                       ELSE DirectoryNode(parts, k))
      at         == IF found # 0 THEN found ELSE Len(pushed)
  IN  IF isLastPart THEN pushed
      ELSE IF MovesDown(isLastPart, pushed[at])
      THEN [pushed EXCEPT ![at].children = WalkParts(@, parts, k + 1, file)]
      ELSE WalkParts(pushed, parts, k + 1, file)

\* The outer loop of buildFileTree: root after the files from position k on.
RECURSIVE InsertFiles(_, _, _)
InsertFiles(root, list, k) ==
  IF k > Len(list) THEN root
  ELSE InsertFiles(WalkParts(root, list[k].path, 1, list[k]), list, k + 1)

\* Mutant of CompareNodes: the nodes are compared by name only.
CompareNodesByName(a, b) == localeCompare(a.name, b.name)

\* The comparator of sortNodes: directories first, then by name.
CompareNodes(a, b) ==
  IF a.type # b.type THEN (IF a.type = "directory" THEN -1 ELSE 1)
  ELSE localeCompare(a.name, b.name)

\* Array.prototype.sort with CompareNodes (a stable sort): node put into a
\* sorted list, after the nodes that do not compare above it.
RECURSIVE PutSorted(_, _)
PutSorted(sorted, node) ==
  IF sorted = <<>> THEN <<node>>
  ELSE IF CompareNodes(node, Head(sorted)) < 0 THEN <<node>> \o sorted
  ELSE <<Head(sorted)>> \o PutSorted(Tail(sorted), node)

RECURSIVE SortedNodes(_, _)
SortedNodes(nodes, k) ==
  IF k = 0 THEN <<>> ELSE PutSorted(SortedNodes(nodes, k - 1), nodes[k])

\* sortNodes: the sorted level, each directory's children sorted in turn.
RECURSIVE sortNodes(_)
sortNodes(nodes) ==
  LET sorted == SortedNodes(nodes, Len(nodes))
  IN  [k \in DOMAIN sorted |->
         IF sorted[k].type = "directory"
         THEN [sorted[k] EXCEPT !.children = sortNodes(@)]
         ELSE sorted[k]]

buildFileTree(list) == sortNodes(InsertFiles(<<>>, list, 1))

\* flattenFiles: the file nodes below a list of nodes, in tree order.
RECURSIVE flattenFiles(_)
flattenFiles(nodes) ==
  IF nodes = <<>> THEN <<>>
  ELSE (IF Head(nodes).type = "directory" THEN flattenFiles(Head(nodes).children)
        ELSE <<Head(nodes)>>) \o flattenFiles(Tail(nodes))

\* Every node below a list of nodes, directories included, in tree order.
RECURSIVE AllNodes(_)
AllNodes(nodes) ==
  IF nodes = <<>> THEN <<>>
  ELSE <<Head(nodes)>>
       \o (IF Head(nodes).type = "directory" THEN AllNodes(Head(nodes).children)
           ELSE <<>>)
       \o AllNodes(Tail(nodes))

\* selectedPaths.includes(path)
Includes(paths, path) == \E k \in DOMAIN paths : paths[k] = path

\* getSelectedCount: a selected file counts one, a selected directory counts
\* every file below it, a directory that is not selected is searched.
RECURSIVE getSelectedCount(_, _)
getSelectedCount(nodes, selected) ==
  IF nodes = <<>> THEN 0
  ELSE LET node == Head(nodes)
       IN  (IF Includes(selected, node.path)
            THEN (IF node.type = "file" THEN 1 ELSE Len(flattenFiles(node.children)))
            ELSE (IF node.type = "directory"
                  THEN getSelectedCount(node.children, selected) ELSE 0))
           + getSelectedCount(Tail(nodes), selected)

\* getSelectedFiles: the files of allFiles found for the selected file nodes,
\* in tree order; directories are searched whether selected or not.
RECURSIVE getSelectedFiles(_, _, _)
getSelectedFiles(nodes, selected, allFiles) ==
  IF nodes = <<>> THEN <<>>
  ELSE LET node == Head(nodes)
       IN  (IF node.type = "file" /\ Includes(selected, node.path)
            THEN (IF \E k \in DOMAIN allFiles : allFiles[k].path = node.path
                  THEN <<allFiles[CHOOSE k \in DOMAIN allFiles :
                                    /\ allFiles[k].path = node.path
                                    /\ \A j \in 1..(k - 1) : allFiles[j].path # node.path]>>
                  ELSE <<>>)
            ELSE (IF node.type = "directory"
                  THEN getSelectedFiles(node.children, selected, allFiles)
                  ELSE <<>>))
           \o getSelectedFiles(Tail(nodes), selected, allFiles)

\* The paths handleFilesImported selects: every supported file node.
SupportedPaths(nodes) ==
  LET fs == SelectSeq(flattenFiles(nodes), LAMBDA n : n.isSupported)
  IN  [k \in DOMAIN fs |-> fs[k].path]

\* toggleSelected: the path is removed when selected, appended otherwise.
Toggled(selected, path) ==
  IF Includes(selected, path) THEN SelectSeq(selected, LAMBDA p : p # path)
  ELSE Append(selected, path)

InitTree ==
  /\ projectFiles \in FileLists
  /\ fileTree = <<>>
  /\ treeStep = "input"
  /\ selectedPaths = <<>>
  /\ clicks = 0
  /\ entry = FGR
  /\ error = NoError
  /\ maxFiles = MAX_FILES
  /\ phase = "tree"
  /\ treeTruncated = FALSE
  /\ relevantItems = <<>>
  /\ limitedItems = <<>>
  /\ isTruncated = FALSE
  /\ files = <<>>
  /\ totalSize = 0
  /\ failedCount = 0
  /\ i = 0
  /\ slots = <<>>
  /\ result = NoResult
  /\ requested = {}
  /\ skipped = {}
  /\ exhausted = {}
  /\ kept = {}
  /\ startTotal = <<>>
  /\ settled = <<>>
  /\ fetchedLen = <<>>
  /\ treeEmpty = FALSE
  /\ refArg = NoRef
  /\ hasToken = FALSE
  /\ repo = "public"
  /\ step = "listed"
  /\ calls = 0
  /\ targetRef = "main"
  /\ resp = NoResp
  /\ fetches = <<>>
  /\ outcomes = <<>>
  /\ storedToken = NoToken
  /\ contentCred = Unsent

\* handleFilesImported: the tree is built and every supported file selected.
FilesImported ==
  /\ treeStep = "input"
  /\ treeStep' = "built"
  /\ fileTree' = buildFileTree(projectFiles)
  /\ selectedPaths' = SupportedPaths(buildFileTree(projectFiles))
  /\ UNCHANGED <<projectFiles, clicks, entry, error>>
  /\ UNCHANGED fetchVars
  /\ UNCHANGED resolveVars

\* A click on the row of a node of the tree, file or directory.
ToggleSelected ==
  /\ treeStep = "built"
  /\ clicks < MaxClicks
  /\ \E k \in DOMAIN AllNodes(fileTree) :
       selectedPaths' = Toggled(selectedPaths, AllNodes(fileTree)[k].path)
  /\ clicks' = clicks + 1
  /\ UNCHANGED <<projectFiles, fileTree, treeStep, entry, error>>
  /\ UNCHANGED fetchVars
  /\ UNCHANGED resolveVars

\* The Select All button.
SelectAll ==
  /\ treeStep = "built"
  /\ clicks < MaxClicks
  /\ selectedPaths' = SupportedPaths(fileTree)
  /\ clicks' = clicks + 1
  /\ UNCHANGED <<projectFiles, fileTree, treeStep, entry, error>>
  /\ UNCHANGED fetchVars
  /\ UNCHANGED resolveVars

\* The Select None button.
SelectNone ==
  /\ treeStep = "built"
  /\ clicks < MaxClicks
  /\ selectedPaths' = <<>>
  /\ clicks' = clicks + 1
  /\ UNCHANGED <<projectFiles, fileTree, treeStep, entry, error>>
  /\ UNCHANGED fetchVars
  /\ UNCHANGED resolveVars

NextTree == FilesImported

SpecTree == InitTree /\ [][NextTree]_vars

NextSelect ==
  \/ FilesImported
  \/ ToggleSelected
  \/ SelectAll
  \/ SelectNone

SpecSelect == InitTree /\ [][NextSelect]_vars

\* ------------------------------------------------------------------ claims
Returned == phase = "done"

\* Whether a returned value is marked truncated.
MarkedTruncated(r) == "truncated" \in DOMAIN r /\ r.truncated = TRUE

\* The items of a list at the positions outside dropped, in order.
RECURSIVE Surviving(_, _, _)
Surviving(items, dropped, at) ==
  IF at > Len(items) THEN <<>>
  ELSE (IF at \in dropped THEN <<>> ELSE <<items[at]>>)
       \o Surviving(items, dropped, at + 1)

PathsOf(list) == [k \in DOMAIN list |-> list[k].path]

\* The least element of a non-empty set of integers.
Least(S) == CHOOSE x \in S : \A y \in S : x <= y

\* The last candidate of the batch candidate c belongs to.
LastOfBatch(c, size) == (((c - 1) \div size) + 1) * size

\* C1: in analyzeGitHubRepo the committed byte total totalSize never exceeds
\* MAX_TOTAL_SIZE_BYTES, after any batch has been merged.
C1_CommittedTotalWithinCap ==
  entry = AGR => totalSize <= MAX_TOTAL_SIZE_BYTES

\* C2: every result fetchGithubRepo returns has files whose sizes sum to at
\* most MAX_TOTAL_SIZE_BYTES.
C2_ReturnedBytesWithinCap ==
  (entry = FGR /\ Returned) => SumSizes(result.files) <= MAX_TOTAL_SIZE_BYTES

\* C3: in analyzeGitHubRepo, once a candidate of batch b does not fit the byte
\* budget, no request of a batch after b is issued, no candidate after it is
\* committed, and the returned result is marked truncated.
C3_BudgetHitEndsRun ==
  (entry = AGR /\ skipped # {}) =>
     LET hit == Least(skipped)
     IN  /\ \A c \in requested : c <= LastOfBatch(hit, AGR_BATCH_SIZE)
         /\ \A c \in kept : c < hit
         /\ Returned => MarkedTruncated(result)

\* The run returned with candidates left that were never requested.
StoppedEarly == Returned /\ requested # 1..Len(limitedItems)

\* C4: no content request is issued for a batch that begins with the committed
\* byte total at or above MAX_TOTAL_SIZE_BYTES, and a run stopped that way
\* returns a result marked truncated.
C4_NoBatchOnceBudgetMet ==
  /\ \A c \in requested : startTotal[c] < MAX_TOTAL_SIZE_BYTES
  /\ StoppedEarly => MarkedTruncated(result)

C6_NoDuplicatePaths ==
  (entry = FGR /\ Returned) =>
     \A a, b \in DOMAIN result.files :
        a # b => result.files[a].path # result.files[b].path

\* C7: when the tree listing is marked truncated, the result fetchGithubRepo
\* returns has truncated = true.
C7_TreeTruncationPropagates ==
  (entry = FGR /\ Returned /\ treeTruncated) => result.truncated = TRUE

\* C7 witness: a truncated listing whose candidates were all kept and all
\* retrieved is returned as truncated.
C7_Witness ==
  /\ entry = FGR
  /\ Returned
  /\ treeTruncated
  /\ Len(limitedItems) = Len(relevantItems)
  /\ failedCount = 0
  /\ result.truncated = TRUE

\* C8: when more than MAX_FILES candidates pass the filters, fetchGithubRepo
\* requests only the first MAX_FILES of them, in listing order, and the result
\* it returns has truncated = true.
C8_OnlyFirstMaxFilesFetched ==
  (entry = FGR /\ Len(relevantItems) > MAX_FILES) =>
     /\ Len(limitedItems) = MAX_FILES
     /\ \A c \in requested : c <= MAX_FILES /\ limitedItems[c] = relevantItems[c]
     /\ Returned => result.truncated = TRUE

\* C8 witness: a complete listing with more than MAX_FILES candidates, all of
\* the first MAX_FILES requested and retrieved.
C8_Witness ==
  /\ entry = FGR
  /\ Returned
  /\ ~treeTruncated
  /\ Len(relevantItems) > MAX_FILES
  /\ requested = 1..MAX_FILES
  /\ failedCount = 0

\* C9: with n candidates of which k failed all their attempts, the result of
\* fetchGithubRepo holds exactly the other n - k files, failedCount = k, and
\* the summary states k when k > 0 and no failure count when k = 0.
C9_FailuresCountedAndReported ==
  (entry = FGR /\ Returned) =>
     LET n == Len(limitedItems)
         k == Cardinality(exhausted)
     IN  /\ Len(result.files) = n - k
         /\ kept = (1..n) \ exhausted
         /\ PathsOf(result.files) = PathsOf(Surviving(limitedItems, exhausted, 1))
         /\ failedCount = k
         /\ result.summary.imported = n - k
         /\ result.summary.failed = (IF k > 0 THEN k ELSE Absent)

\* C9 witness: two candidates of one batch failed all their attempts and the
\* others were retrieved.
C9_Witness ==
  /\ entry = FGR
  /\ Returned
  /\ exhausted = {1, 2}
  /\ Len(limitedItems) > FGR_BATCH_SIZE
  /\ result.summary.failed = 2

\* C10: once fetchGithubRepo has candidates, no failed content fetch ends the
\* run with an error: while a batch or a delay is pending the run can go on,
\* and it returns only after every candidate has been requested.
C10_FetchFailureNeverAborts ==
  (entry = FGR /\ limitedItems # <<>>) =>
     /\ phase # "error"
     /\ error = NoError
     /\ phase \in {"batch", "delay"} => ENABLED FgrNext
     /\ Returned => (result # NoResult /\ requested = 1..Len(limitedItems))

\* C10 witness: every candidate of the first batch failed all its attempts and
\* the run still went on to the next batch and returned.
C10_Witness ==
  /\ entry = FGR
  /\ Returned
  /\ Len(limitedItems) > FGR_BATCH_SIZE
  /\ 1..FGR_BATCH_SIZE \subseteq exhausted
  /\ requested = 1..Len(limitedItems)

\* The files of the candidates in S, in candidate order, each with the content
\* length its fetch returned.
RECURSIVE InCandidateOrder(_, _, _, _)
InCandidateOrder(items, lens, S, at) ==
  IF at > Len(items) THEN <<>>
  ELSE (IF at \in S THEN <<ProjectFile(items[at], lens[at])>> ELSE <<>>)
       \o InCandidateOrder(items, lens, S, at + 1)

\* C11: the files of fetchGithubRepo are in the relative order of the
\* candidate list, whatever the order the fetches of a batch complete in and
\* whichever candidates are dropped by failure.
C11_FilesInCandidateOrder ==
  entry = FGR =>
     /\ files = InCandidateOrder(limitedItems, fetchedLen, kept, 1)
     /\ Returned => result.files = files

\* C11 witness: in the last batch a later candidate's fetch settled before an
\* earlier one's, both were kept, another candidate was dropped by failure,
\* and the run returned.
C11_Witness ==
  /\ entry = FGR
  /\ Returned
  /\ exhausted # {}
  /\ \E a, b \in DOMAIN settled :
       /\ a < b
       /\ settled[a] > settled[b]
       /\ {Cand(settled[a]), Cand(settled[b])} \subseteq kept

\* The slots of the batch whose content request is out.
InFlight == {k \in DOMAIN slots : slots[k].st = "inflight"}

\* C12: in fetchGithubRepo the content fetches in flight are at most
\* BATCH_SIZE and belong to the one batch at index i; every candidate of an
\* earlier batch that was requested has finished all its attempts and its
\* result is merged (pushed to files or counted as failed) before any request
\* of the next batch is issued.
C12_OneBatchAtATime ==
  entry = FGR =>
     /\ Cardinality(InFlight) <= FGR_BATCH_SIZE
     /\ \A c \in requested :
          /\ c <= i + FGR_BATCH_SIZE
          /\ c <= i => c \in kept \cup exhausted
     /\ phase = "batch" => Len(files) + failedCount = i

\* C12 witness: the second batch is in flight after a first batch in which one
\* candidate was retrieved and another failed all its attempts.
C12_Witness ==
  /\ entry = FGR
  /\ phase = "batch"
  /\ i = FGR_BATCH_SIZE
  /\ InFlight # {}
  /\ \E c, d \in 1..FGR_BATCH_SIZE : c \in kept /\ d \in exhausted

\* The wait in milliseconds the retry rule prescribes after the failure of the
\* j-th attempt (1-based): 2^(j-1) seconds.
PrescribedWaitMs(j) == (2 ^ (j - 1)) * 1000

\* One step of a slot from a to b that follows the retry rule.
SlotStep(a, b) ==
  \/ a = b
  \/ a.st = "inflight" /\ b.st = "ok"
  \/ /\ a.st = "inflight"
     /\ b.st = "backoff"
     /\ a.attempt + 1 < RETRIES
     /\ b.attempt = a.attempt
     /\ b.delay = PrescribedWaitMs(a.attempt + 1)
  \/ a.st = "inflight" /\ b.st = "failed" /\ a.attempt + 1 = RETRIES
  \/ a.st = "backoff" /\ b.st = "inflight" /\ b.attempt = a.attempt + 1

\* C13: fetchFileWithRetry attempts a candidate at most 3 times; an attempt
\* after the first starts only from the backoff armed by the failure of the
\* one before it (1 s, then 2 s); nothing follows a success; a failure is
\* reported only when the third attempt failed.
C13_RetryDiscipline ==
  [][entry = FGR =>
       /\ \A k \in DOMAIN slots \cap DOMAIN slots' : SlotStep(slots[k], slots'[k])
       /\ \A k \in DOMAIN slots' \ DOMAIN slots :
            slots'[k] = [st |-> "inflight", attempt |-> 0]
       /\ \A k \in DOMAIN slots' :
            slots'[k].st \in {"inflight", "backoff"} => slots'[k].attempt < RETRIES]_vars

\* C13 witness: a candidate's third attempt is in flight while another
\* candidate of the batch has succeeded.
C13_Witness ==
  /\ entry = FGR
  /\ \E k, m \in DOMAIN slots :
       /\ slots[k].st = "inflight"
       /\ slots[k].attempt = RETRIES - 1
       /\ slots[m].st = "ok"

\* C14: at both entry points an OK tree response that lists no entry ends the
\* run with the repository-empty error, and never with a result.
C14_EmptyTreeIsRepositoryEmpty ==
  treeEmpty => (phase = "error" /\ error = "RepositoryEmpty" /\ result = NoResult)

\* C15: at both entry points a non-empty tree of which no entry survives the
\* filters ends the run with the no-matching-files error, before any content
\* request and without a result.
C15_NoSurvivorIsNoMatchingFiles ==
  (phase # "tree" /\ ~treeEmpty /\ relevantItems = <<>>) =>
     /\ phase = "error"
     /\ error = "NoMatchingFiles"
     /\ requested = {}
     /\ result = NoResult

\* C15 witness: analyzeGitHubRepo, asked for a positive number of files, got a
\* non-empty tree with no supported entry and threw no-matching-files.
C15_Witness ==
  /\ entry = AGR
  /\ maxFiles > 0
  /\ phase = "error"
  /\ ~treeEmpty
  /\ relevantItems = <<>>
  /\ error = "NoMatchingFiles"

\* The fetch issued last.
LastFetch == fetches[Len(fetches)]

\* C16: at both entry points the tree is fetched for the caller's reference
\* whenever one is supplied, and for the default branch the metadata call
\* gave only when none is supplied.
C16_TreeOfCallersReference ==
  step = "tree" =>
     /\ LastFetch.call = "tree"
     /\ LastFetch.ref = (IF refArg # NoRef THEN refArg ELSE DefaultBranchOr(resp))

\* The rate-limit signals of a response: remaining quota zero, or a 403 that
\* carries a retry-after or rate-limit-reset header.
RateSignals(r) == r.remaining0 \/ (r.status = 403 /\ r.retryHdr)

\* The errors of fetchGithubRepo that say authentication is required.
AuthenticationRequired == {"PrivateNeedsToken", "Unauthorized"}

\* C17: a fetchGithubRepo run on a repository that does not exist (the remote
\* answers 404) fails with repository-not-found, and a run on a private
\* repository without a token that the remote refuses, or answers with the
\* private metadata, fails with authentication-required, with or without a
\* branch argument.
C17_MissingAndPrivateRepositories ==
  (entry = FGR /\ step = "error" /\ ~RateSignals(resp)) =>
     /\ (repo = "missing" /\ resp.status = 404) => error = "RepositoryNotFound"
     /\ (repo = "private" /\ ~hasToken /\ resp.status \in {200, 401, 403, 404}) =>
          error \in AuthenticationRequired

\* C18: in analyzeGitHubRepo without a stored token, a first request() that
\* ended on a 401 response is followed by exactly one more request() before a
\* failure leaves the run; after any other failure of the first call, and
\* after a failure of the second, no further request() is made.
C18_RetryOnceAfter401 ==
  (entry = AGR /\ ~hasToken /\ outcomes # <<>>) =>
     /\ calls <= 2
     /\ (outcomes[1].resp.status = 401 /\ ~RateSignals(outcomes[1].resp)) =>
          (IF Len(outcomes) = 1 THEN calls = 2 /\ step = "auth" ELSE calls = 2)
     /\ (outcomes[1].threw # "none" /\ outcomes[1].resp.status # 401) =>
          (calls = 1 /\ step = "error")

\* C19: a failing response to request() or to the metadata or tree fetch of
\* fetchGithubRepo that carries the rate-limit signals is reported as the
\* rate-limited error.
C19_RateLimitSignalsReported ==
  (step = "error" /\ ~Ok(resp) /\ RateSignals(resp)
     /\ (entry = FGR \/ LastFetch.call = "meta")) =>
     error = "RateLimited"

\* The category the taxonomy gives the response that ends a failing call.
Taxonomy(r) ==
  IF RateSignals(r) THEN "RateLimited"
  ELSE CASE r.status = 401 -> "AuthRequired"
         [] r.status = 403 -> "AccessDenied"
         [] r.status = 404 -> "NotFound"
         [] OTHER -> "Generic"

\* C20: every request() call that fails throws the category the taxonomy
\* gives the response that ended it, with and without a stored token.
C20_RequestErrorTaxonomy ==
  entry = AGR =>
     \A k \in DOMAIN outcomes :
        outcomes[k].threw # "none" => outcomes[k].threw = Taxonomy(outcomes[k].resp)

\* C25: every file of a returned result has a size strictly below
\* MAX_FILE_SIZE_BYTES, whatever size the listing reported for it.
C25_FileSizesBelowCap ==
  Returned =>
     \A k \in DOMAIN result.files : result.files[k].size < MAX_FILE_SIZE_BYTES

\* C26: a result of fetchGithubRepo carries the skipped-due-to-limits notice
\* in its summary exactly when its truncated flag is true.
C26_NoticeIffTruncated ==
  (entry = FGR /\ Returned) => (result.summary.notice <=> result.truncated)

\* C27: fetchGithubRepo returns truncated = true only when the listing was
\* marked truncated, the candidate list was cut, or some candidate was never
\* attempted; per-item fetch failures alone do not mark the result truncated.
C27_TruncatedOnlyWhenCut ==
  (entry = FGR /\ Returned /\ result.truncated) =>
     \/ treeTruncated
     \/ Len(limitedItems) < Len(relevantItems)
     \/ requested # 1..Len(limitedItems)

C29_RunUsesItsOwnCredential ==
  entry = FGR =>
     /\ \A k \in DOMAIN fetches : fetches[k].auth = hasToken
     /\ contentCred # Unsent => contentCred = ArgToken(hasToken)

\* The list with its files in the order the permutation f gives.
Reordered(list, f) == [k \in DOMAIN list |-> list[f[k]]]

\* C21: buildFileTree gives the same tree for a file list and for every
\* permutation of it.
C21_OrderIndependent ==
  treeStep = "built" =>
     \A f \in Permutations(1..Len(projectFiles)) :
        buildFileTree(Reordered(projectFiles, f)) = fileTree

\* Whether a level and every level below it has its directories before its
\* files and the nodes of one kind in ascending order of name.
RECURSIVE SortedEverywhere(_)
SortedEverywhere(nodes) ==
  /\ \A j, k \in DOMAIN nodes :
       j < k =>
         /\ nodes[j].type = "file" => nodes[k].type = "file"
         /\ nodes[j].type = nodes[k].type =>
              NameRank(nodes[j].name) <= NameRank(nodes[k].name)
  /\ \A k \in DOMAIN nodes :
       nodes[k].type = "directory" => SortedEverywhere(nodes[k].children)

\* C22: in every tree buildFileTree returns, at every level the directories
\* come before the files and nodes of the same kind are in ascending order of
\* name.
C22_DirectoriesFirstThenByName ==
  treeStep = "built" => SortedEverywhere(fileTree)

NamesOf(nodes) == [k \in DOMAIN nodes |-> nodes[k].name]

\* C22 witness: for e.txt, a/b.txt, a/c/d.txt the root is [a, e.txt] and the
\* children of a are [c, b.txt].
C22_Witness ==
  /\ treeStep = "built"
  /\ [k \in DOMAIN projectFiles |-> projectFiles[k].path]
       = << <<"e.txt">>, <<"a", "b.txt">>, <<"a", "c", "d.txt">> >>
  /\ NamesOf(fileTree) = <<"a", "e.txt">>
  /\ NamesOf(fileTree[1].children) = <<"c", "b.txt">>

DistinctPaths(list) ==
  \A j, k \in DOMAIN list : j # k => list[j].path # list[k].path

\* The file nodes below a list of nodes, each with the place it hangs at: the
\* names of the directories above it, then its own name.
RECURSIVE FilePlaces(_, _)
FilePlaces(nodes, above) ==
  IF nodes = <<>> THEN {}
  ELSE LET node == Head(nodes)
       IN  (IF node.type = "directory"
            THEN FilePlaces(node.children, Append(above, node.name))
            ELSE {[path |-> node.path, size |-> node.size,
                   language |-> node.language, place |-> Append(above, node.name)]})
           \cup FilePlaces(Tail(nodes), above)

\* C23: for a list of pairwise distinct paths the tree has exactly one file
\* node per input file, with the file's path, size and language, at the place
\* the path names.
C23_OneFileNodePerFile ==
  (treeStep = "built" /\ DistinctPaths(projectFiles)) =>
     /\ Len(flattenFiles(fileTree)) = Len(projectFiles)
     /\ FilePlaces(fileTree, <<>>) =
          {[path |-> projectFiles[k].path, size |-> projectFiles[k].size,
            language |-> projectFiles[k].language, place |-> projectFiles[k].path] :
             k \in DOMAIN projectFiles}

RECURSIVE DirectoriesHaveFiles(_)
DirectoriesHaveFiles(nodes) ==
  \A k \in DOMAIN nodes :
     nodes[k].type = "directory" =>
        /\ flattenFiles(nodes[k].children) # <<>>
        /\ DirectoriesHaveFiles(nodes[k].children)

\* C24: in every tree buildFileTree returns, every directory node has at
\* least one file node below it.
C24_NoEmptyDirectory ==
  treeStep = "built" => DirectoriesHaveFiles(fileTree)

\* C24 witness: a tree with a directory inside a directory, built from a list
\* in which one file's path is a directory of another's.
C24_Witness ==
  /\ treeStep = "built"
  /\ \E j, k \in DOMAIN projectFiles :
       /\ Len(projectFiles[j].path) < Len(projectFiles[k].path)
       /\ projectFiles[j].path = SubSeq(projectFiles[k].path, 1, Len(projectFiles[j].path))
  /\ \E k \in DOMAIN fileTree :
       /\ fileTree[k].type = "directory"
       /\ \E j \in DOMAIN fileTree[k].children :
            fileTree[k].children[j].type = "directory"

\* C30: for every selection reached by clicks on the tree, the number
\* getSelectedCount shows equals the number of files getSelectedFiles returns.
C30_CountEqualsSelectedFiles ==
  treeStep = "built" =>
     getSelectedCount(fileTree, selectedPaths)
       = Len(getSelectedFiles(fileTree, selectedPaths, projectFiles))

====
